---- MODULE Spec2Model ----
(***************************************************************************)
(* Model of the bounded-concurrency annotation pipeline of                 *)
(* src/vapi_analyze.py: main, analyze_all_calls, analyze_single_transcript *)
(* and the response clean-up and decoding they perform.                    *)
(*                                                                         *)
(* Text is a sequence of one-character strings (the backtick is written   *)
(* BT).  A JSON value (a Python object after json.load / json.loads) is a  *)
(* record                                                                  *)
(*   [t, s, keys, items]                                                   *)
(* with t the kind, s the characters of a string or of a number literal,   *)
(* keys/items the members of an object and items the elements of an array. *)
(* Python None and JSON null are the same value; a key that is missing     *)
(* from a dict is the value Absent.                                        *)
(***************************************************************************)
EXTENDS Integers, Sequences, FiniteSets, TLC

VARIABLES
    calls,        \* the list loaded by main: one dict per call (mutated in place)
    input,        \* snapshot of calls as loaded (never changes)
    concurrency,  \* args.concurrent
    client,       \* the Annotation Client: per transcript text, the outcomes
                  \* generate_content may end with (never changes)
    mainpc,       \* position of main / analyze_all_calls
    sem,          \* asyncio.Semaphore: free permits
    pc,           \* position of each task
    inflight,     \* indexes whose client call runs in an executor thread
    doneOrder,    \* indexes of the tasks that returned, in completion order
    call_id,      \* per index: the call_id the task reports with (Absent before)
    clientCalls,  \* per index: number of generate_content calls started
    callResult,   \* per index: the outcomes the task received from its client call
    written,      \* per index: the assignments to call_data['llm_analysis'], in order,
                  \* each with the outcome variant of the line that made it
    results,      \* value returned by analyze_all_calls (a list) or NoResult
    output,       \* what json.dump wrote to args.output, or NoResult
    summary,      \* the counts printed by main, or NoSummary
    raw,          \* parser study: response.text handed to the clean-up
    parsed        \* parser study: what the task stored for it, or NotRun

vars == <<calls, input, concurrency, client, mainpc, sem, pc, inflight,
          doneOrder, call_id, clientCalls, callResult, written, results, output, summary, raw, parsed>>

batchVars == <<calls, input, concurrency, client, mainpc, sem, pc, inflight,
               doneOrder, call_id, clientCalls, callResult, written, results, output, summary>>

----------------------------------------------------------------------------
(* JSON values *)

Doc(t, s, keys, items) == [t |-> t, s |-> s, keys |-> keys, items |-> items]

Absent == Doc("absent", <<>>, <<>>, <<>>)

JNull == Doc("null", <<>>, <<>>, <<>>)

JTrue == Doc("true", <<>>, <<>>, <<>>)

JFalse == Doc("false", <<>>, <<>>, <<>>)

JNum(lit) == Doc("num", lit, <<>>, <<>>)

JStr(chars) == Doc("str", chars, <<>>, <<>>)

JArr(items) == Doc("arr", <<>>, <<>>, items)

JObj(keys, items) == Doc("obj", <<>>, keys, items)

\* d[k] = v on a Python dict: a new key is appended, an existing one keeps its place
DictSet(d, k, v) ==
    IF \E n \in 1..Len(d.keys) : d.keys[n] = k
    THEN JObj(d.keys, [n \in 1..Len(d.items) |-> IF d.keys[n] = k THEN v ELSE d.items[n]])
    ELSE JObj(Append(d.keys, k), Append(d.items, v))

\* d.get(k): None when the key is missing
DictGet(d, k) ==
    IF \E n \in 1..Len(d.keys) : d.keys[n] = k
    THEN d.items[CHOOSE n \in 1..Len(d.keys) : d.keys[n] = k]
    ELSE JNull

\* k in d
HasKey(d, k) == \E n \in 1..Len(d.keys) : d.keys[n] = k

Digits == {"0", "1", "2", "3", "4", "5", "6", "7", "8", "9"}

\* the part of a number literal before its exponent
Mantissa(lit) ==
    LET es == {n \in 1..Len(lit) : lit[n] \in {"e", "E"}}
    IN  IF es = {} THEN lit ELSE SubSeq(lit, 1, (CHOOSE n \in es : \A m \in es : n <= m) - 1)

\* bool(x) for a decoded value
Truthy(d) ==
    CASE d.t \in {"absent", "null", "false"} -> FALSE
      [] d.t = "true" -> TRUE
      [] d.t = "num" -> \E n \in 1..Len(Mantissa(d.s)) :
                            Mantissa(d.s)[n] \in Digits \ {"0"} \/ Mantissa(d.s)[n] \in {"N", "I"}
      [] d.t = "str" -> Len(d.s) > 0
      [] d.t = "arr" -> Len(d.items) > 0
      [] OTHER -> Len(d.keys) > 0

----------------------------------------------------------------------------
(* Python str operations used on response.text *)

Whitespace == {" ", "\t", "\n", "\r"}

\* str.strip()
Strip(s) ==
    LET keep == {n \in 1..Len(s) : s[n] \notin Whitespace}
    IN  IF keep = {} THEN <<>>
        ELSE SubSeq(s, CHOOSE n \in keep : \A m \in keep : n <= m,
                       CHOOSE n \in keep : \A m \in keep : n >= m)

\* whether sub occurs in s at position n
OccursAt(s, n, sub) ==
    /\ n >= 1
    /\ n + Len(sub) - 1 <= Len(s)
    /\ SubSeq(s, n, n + Len(sub) - 1) = sub

\* str.startswith
StartsWith(s, prefix) == OccursAt(s, 1, prefix)

\* str.endswith
EndsWith(s, suffix) == OccursAt(s, Len(s) - Len(suffix) + 1, suffix)

\* s.replace(old, "", 1): the first occurrence of old removed
RemoveFirst(s, old) ==
    LET at == {n \in 1..Len(s) : OccursAt(s, n, old)}
    IN  IF at = {} THEN s
        ELSE LET n == CHOOSE n \in at : \A m \in at : n <= m
             IN  SubSeq(s, 1, n - 1) \o SubSeq(s, n + Len(old), Len(s))

\* s.rsplit(sep, 1)[0]: what precedes the last occurrence of sep
BeforeLast(s, sep) ==
    LET at == {n \in 1..Len(s) : OccursAt(s, n, sep)}
    IN  IF at = {} THEN s
        ELSE SubSeq(s, 1, (CHOOSE n \in at : \A m \in at : n >= m) - 1)

\* s[:n]
\* variant that keeps the whole text
PrefixWhole(s, n) == s

Prefix(s, n) == SubSeq(s, 1, IF Len(s) < n THEN Len(s) ELSE n)

----------------------------------------------------------------------------
(* json.loads.  Texts are over an alphabet without the backslash, so string  *)
(* escapes do not occur.                                                      *)

\* the messages of JSONDecodeError
MsgExpectingValue ==
    <<"E", "x", "p", "e", "c", "t", "i", "n", "g", " ", "v", "a", "l", "u", "e">>

MsgExtraData ==
    <<"E", "x", "t", "r", "a", " ", "d", "a", "t", "a">>

MsgExpectingName ==
    <<"E", "x", "p", "e", "c", "t", "i", "n", "g", " ", "p", "r", "o", "p", "e", "r",
      "t", "y", " ", "n", "a", "m", "e", " ", "e", "n", "c", "l", "o", "s", "e",
      "d", " ", "i", "n", " ", "d", "o", "u", "b", "l", "e", " ", "q", "u", "o",
      "t", "e", "s">>

MsgExpectingColon ==
    <<"E", "x", "p", "e", "c", "t", "i", "n", "g", " ", "'", ":", "'", " ", "d", "e",
      "l", "i", "m", "i", "t", "e", "r">>

MsgExpectingComma ==
    <<"E", "x", "p", "e", "c", "t", "i", "n", "g", " ", "'", ",", "'", " ", "d", "e",
      "l", "i", "m", "i", "t", "e", "r">>

MsgUnterminated ==
    <<"U", "n", "t", "e", "r", "m", "i", "n", "a", "t", "e", "d", " ", "s", "t", "r",
      "i", "n", "g", " ", "s", "t", "a", "r", "t", "i", "n", "g", " ", "a", "t">>

MsgControlChar ==
    <<"I", "n", "v", "a", "l", "i", "d", " ", "c", "o", "n", "t", "r", "o", "l", " ",
      "c", "h", "a", "r", "a", "c", "t", "e", "r", " ", "a", "t">>

\* JSONDecodeError(msg, s, at - 1): at is the index the error points to
Fail(msg, at) == [ok |-> FALSE, v |-> JNull, next |-> 0, msg |-> msg, at |-> at]

Value(v, next) == [ok |-> TRUE, v |-> v, next |-> next, msg |-> <<>>, at |-> 0]

\* s[i:i+1]: the empty string past either end
CharAt(s, i) == IF i >= 1 /\ i <= Len(s) THEN s[i] ELSE ""

\* WHITESPACE.match(s, i).end()
SkipWs(s, i) ==
    CHOOSE n \in i..(Len(s) + 1) :
        /\ n = Len(s) + 1 \/ s[n] \notin Whitespace
        /\ \A m \in i..(n - 1) : s[m] \in Whitespace

\* the index after the run of digits that starts at i
DigitRun(s, i) ==
    CHOOSE n \in i..(Len(s) + 1) :
        /\ n = Len(s) + 1 \/ s[n] \notin Digits
        /\ \A m \in i..(n - 1) : s[m] \in Digits

\* NUMBER_RE.match(s, i): the index after the match, 0 when there is none
ScanNumber(s, i) ==
    LET j == IF CharAt(s, i) = "-" THEN i + 1 ELSE i
        intEnd == IF CharAt(s, j) = "0" THEN j + 1
                  ELSE IF CharAt(s, j) \in Digits THEN DigitRun(s, j) ELSE 0
        fracEnd == IF intEnd # 0 /\ CharAt(s, intEnd) = "." /\ CharAt(s, intEnd + 1) \in Digits
                   THEN DigitRun(s, intEnd + 1) ELSE intEnd
        k == IF fracEnd # 0 /\ CharAt(s, fracEnd) \in {"e", "E"}
             THEN (IF CharAt(s, fracEnd + 1) \in {"+", "-"} THEN fracEnd + 2 ELSE fracEnd + 1)
             ELSE 0
    IN  IF k # 0 /\ CharAt(s, k) \in Digits THEN DigitRun(s, k) ELSE fracEnd

\* int(literal) or float(literal): an integer is its literal, but for -0, which
\* is 0; a float is kept as its literal
NumberValue(lit) == IF lit = <<"-", "0">> THEN <<"0">> ELSE lit

\* scanstring(s, i), i the index after the opening quote (strict: no control characters)
ScanString(s, i) ==
    LET stop == {n \in i..Len(s) : s[n] \in {"\"", "\\", "\n", "\t", "\r"}}
    IN  IF stop = {} THEN Fail(MsgUnterminated, i - 1)
        ELSE LET n == CHOOSE n \in stop : \A m \in stop : n <= m
             IN  IF s[n] = "\"" THEN Value(JStr(SubSeq(s, i, n - 1)), n + 1)
                 ELSE Fail(MsgControlChar, n)

RECURSIVE ScanOnce(_, _)
RECURSIVE ArrayItems(_, _, _)
RECURSIVE ObjectMembers(_, _, _)

\* JSONArray, i the index after "["
ScanArray(s, i) ==
    LET q == SkipWs(s, i)
    IN  IF CharAt(s, q) = "]" THEN Value(JArr(<<>>), q + 1) ELSE ArrayItems(s, q, <<>>)

\* the loop of JSONArray, i at the start of the next element
ArrayItems(s, i, acc) ==
    LET val == ScanOnce(s, i)
        e == SkipWs(s, val.next)
    IN  IF ~val.ok THEN val
        ELSE IF CharAt(s, e) = "]" THEN Value(JArr(Append(acc, val.v)), e + 1)
        ELSE IF CharAt(s, e) = "," THEN ArrayItems(s, SkipWs(s, e + 1), Append(acc, val.v))
        ELSE Fail(MsgExpectingComma, e)

\* JSONObject, i the index after "{"
ScanObject(s, i) ==
    LET q == SkipWs(s, i)
    IN  IF CharAt(s, q) = "}" THEN Value(JObj(<<>>, <<>>), q + 1)
        ELSE ObjectMembers(s, q, JObj(<<>>, <<>>))

\* the loop of JSONObject, i at the opening quote of the next key
ObjectMembers(s, i, acc) ==
    IF CharAt(s, i) # "\"" THEN Fail(MsgExpectingName, i)
    ELSE LET key == ScanString(s, i + 1)
             c == SkipWs(s, key.next)
             val == ScanOnce(s, SkipWs(s, c + 1))
             e == SkipWs(s, val.next)
         IN  IF ~key.ok THEN key
             ELSE IF CharAt(s, c) # ":" THEN Fail(MsgExpectingColon, c)
             ELSE IF ~val.ok THEN val
             ELSE IF CharAt(s, e) = "}" THEN Value(DictSet(acc, key.v.s, val.v), e + 1)
             ELSE IF CharAt(s, e) = ","
                  THEN ObjectMembers(s, SkipWs(s, e + 1), DictSet(acc, key.v.s, val.v))
             ELSE Fail(MsgExpectingComma, e)

\* scan_once(s, i): one JSON value starting exactly at i
ScanOnce(s, i) ==
    LET c == CharAt(s, i)
        numEnd == ScanNumber(s, i)
    IN  IF c = "\"" THEN ScanString(s, i + 1)
        ELSE IF c = "{" THEN ScanObject(s, i + 1)
        ELSE IF c = "[" THEN ScanArray(s, i + 1)
        ELSE IF OccursAt(s, i, <<"n", "u", "l", "l">>) THEN Value(JNull, i + 4)
        ELSE IF OccursAt(s, i, <<"t", "r", "u", "e">>) THEN Value(JTrue, i + 4)
        ELSE IF OccursAt(s, i, <<"f", "a", "l", "s", "e">>) THEN Value(JFalse, i + 5)
        ELSE IF numEnd # 0 THEN Value(JNum(NumberValue(SubSeq(s, i, numEnd - 1))), numEnd)
        ELSE IF OccursAt(s, i, <<"N", "a", "N">>) THEN Value(JNum(SubSeq(s, i, i + 2)), i + 3)
        ELSE IF OccursAt(s, i, <<"I", "n", "f", "i", "n", "i", "t", "y">>)
             THEN Value(JNum(SubSeq(s, i, i + 7)), i + 8)
        ELSE IF OccursAt(s, i, <<"-", "I", "n", "f", "i", "n", "i", "t", "y">>)
             THEN Value(JNum(SubSeq(s, i, i + 8)), i + 9)
        ELSE Fail(MsgExpectingValue, i)

\* json.loads(s): ok = FALSE stands for JSONDecodeError
JsonLoads(s) ==
    LET r == ScanOnce(s, SkipWs(s, 1))
    IN  IF ~r.ok THEN r
        ELSE IF SkipWs(s, r.next) = Len(s) + 1 THEN r
        ELSE Fail(MsgExtraData, SkipWs(s, r.next))

----------------------------------------------------------------------------
(* The response clean-up and decoding of analyze_single_transcript *)

\* the backtick character (the one character SANY cannot read inside a string)
BT == "BT"

Fence == <<BT, BT, BT>>

FenceJson == <<BT, BT, BT, "j", "s", "o", "n">>

KeyError == <<"e", "r", "r", "o", "r">>

KeyRaw == <<"r", "a", "w">>

MsgInvalidJson == <<"I", "n", "v", "a", "l", "i", "d", " ", "J", "S", "O", "N", " ",
                    "r", "e", "s", "p", "o", "n", "s", "e">>

RawCap == 500

\* lines 92-93: the opening json fence marker removed
StripOpeningFence(text) ==
    IF StartsWith(text, FenceJson) THEN RemoveFirst(text, FenceJson) ELSE text

\* lines 94-95: a closing fence marker removed
StripClosingFence(text) ==
    IF EndsWith(text, Fence) THEN BeforeLast(text, Fence) ELSE text

\* lines 89-96: analysis_json as handed to json.loads
CleanUp(text) == Strip(StripClosingFence(StripOpeningFence(Strip(text))))

\* line 105: the document stored on JSONDecodeError
ParseErrorDoc(analysis_json) ==
    JObj(<<KeyError, KeyRaw>>, <<JStr(MsgInvalidJson), JStr(Prefix(analysis_json, RawCap))>>)

\* variant that adds an excerpt to the document of a failed call
TransportErrorDocWithRaw(msg) == JObj(<<KeyError, KeyRaw>>, <<JStr(msg), JStr(<<>>)>>)

\* line 109: the document stored when the call (or anything in the try) raises
TransportErrorDoc(msg) == JObj(<<KeyError>>, <<JStr(msg)>>)

\* lines 89-105: the value assigned to call_data['llm_analysis'] for response.text
Annotation(text) ==
    LET r == JsonLoads(CleanUp(text))
    IN  IF r.ok THEN r.v ELSE ParseErrorDoc(CleanUp(text))

----------------------------------------------------------------------------
(* Bounds and the inputs drawn within them *)

MaxN == 2

MaxK == 2

Q == "\""

KeyId == <<"i", "d">>

KeyTranscript == <<"t", "r", "a", "n", "s", "c", "r", "i", "p", "t">>

KeyType == <<"t", "y", "p", "e">>

KeyLlmAnalysis == <<"l", "l", "m", "_", "a", "n", "a", "l", "y", "s", "i", "s">>

KeyX == <<"x">>

DocX1 == JObj(<<KeyX>>, <<JNum(<<"1">>)>>)

\* call dicts as json.load gives them to main
RecordInputs ==
    { JObj(<<KeyId, KeyTranscript, KeyType>>,
           <<JStr(<<"a">>), JStr(<<"h", "e", "l", "l", "o">>), JStr(<<"w">>)>>),
      JObj(<<KeyId, KeyTranscript>>, <<JStr(<<"b">>), JStr(<<>>)>>),
      JObj(<<KeyId, KeyTranscript, KeyLlmAnalysis>>,
           <<JStr(<<"c">>), JStr(<<"w", "o", "r", "l", "d">>), DocX1>>),
      JObj(<<KeyType, KeyLlmAnalysis>>, <<JStr(<<"w">>), DocX1>>),
      JObj(<<KeyId, KeyTranscript, KeyType>>, <<JNull, JNull, JStr(<<"w">>)>>),
      JObj(<<KeyTranscript, KeyType>>, <<JStr(<<" ", "\n">>), JStr(<<"w">>)>>),
      JObj(<<KeyId, KeyTranscript>>, <<JStr(<<"f">>), JNum(<<"5">>)>>) }

TextX1 == <<"{", Q, "x", Q, ":", "1", "}">>

TextError == <<"{", Q, "e", "r", "r", "o", "r", Q, ":", Q, "e", Q, "}">>

\* response.text values the client returns in the batch study
BatchTexts ==
    { TextX1,
      FenceJson \o <<"\n">> \o TextX1 \o <<"\n">> \o Fence,
      <<"n", "u", "l", "l">>,
      <<"0">>,
      TextError,
      <<"o", "o", "p", "s">> }

\* str(e) of the exceptions the client call raises
FailureMessages == { <<"t", "i", "m", "e", "o", "u", "t">> }

\* what one generate_content call ends with: a response text or an exception
ClientOutcomes ==
    {[ok |-> TRUE, text |-> t] : t \in BatchTexts}
        \cup {[ok |-> FALSE, text |-> m] : m \in FailureMessages}

NoResult == JNull

NoSummary == [total |-> -1, success |-> -1, skipped |-> -1, errors |-> -1]

NotRun == Absent

N == Len(calls)

Indexes == 1..N

----------------------------------------------------------------------------
(* analyze_single_transcript *)

DigitChar(n) == <<"0", "1", "2", "3", "4", "5", "6", "7", "8", "9">>[n + 1]

\* line 54: call_data.get('id', f'index_{index}'); the task of calls[i] has index i - 1
CallId(call, i) ==
    IF HasKey(call, KeyId) THEN DictGet(call, KeyId)
    ELSE JStr(<<"i", "n", "d", "e", "x", "_", DigitChar(i - 1)>>)

\* the skip test without its strip(): a whitespace-only transcript is analysed
SkipTestNoStrip(transcript) == ~Truthy(transcript)

\* line 57: not transcript or not transcript.strip(), for a transcript that has strip()
SkipTest(transcript) ==
    \/ ~Truthy(transcript)
    \/ transcript.t = "str" /\ Strip(transcript.s) = <<>>

\* line 57 raises AttributeError: a truthy transcript that is no str has no strip()
SkipTestRaises(transcript) == Truthy(transcript) /\ transcript.t # "str"

\* an exit of the gate that gives no permit back
ReleasedNever(n) == sem

\* lines 52, 111: leaving "async with semaphore" releases the permit; n tasks leave
Released(n) == sem + n

\* a gate that lets a task in when no permit is left
CanAcquireAtZero == sem >= 0

\* a gate that never holds a task back
CanAcquireAlways == TRUE

\* a gate that also holds a task back while the call of another task is running
CanAcquireWhenIdle == sem > 0 /\ inflight = {}

\* line 52: whether "async with semaphore" can be entered now
CanAcquire == sem > 0

\* the assignment made on the first dict of the list instead of the task's own
WriteAnnotationFirstSlot(i, variant, value) ==
    /\ calls' = [calls EXCEPT ![1] = DictSet(calls[1], KeyLlmAnalysis, value)]
    /\ written' = [written EXCEPT ![i] = Append(@, [variant |-> variant, value |-> value])]

\* the assignment made only when the dict has no llm_analysis yet
WriteAnnotationIfMissing(i, variant, value) ==
    /\ calls' = IF HasKey(calls[i], KeyLlmAnalysis) THEN calls
                ELSE [calls EXCEPT ![i] = DictSet(calls[i], KeyLlmAnalysis, value)]
    /\ written' = [written EXCEPT ![i] = Append(@, [variant |-> variant, value |-> value])]

\* lines 59, 101, 105, 109: call_data['llm_analysis'] = value, on the dict calls[i]
WriteAnnotation(i, variant, value) ==
    /\ calls' = [calls EXCEPT ![i] = DictSet(calls[i], KeyLlmAnalysis, value)]
    /\ written' = [written EXCEPT ![i] = Append(@, [variant |-> variant, value |-> value])]

\* lines 60, 111: return call_data; the task is done
TaskReturns(i) ==
    /\ pc' = [pc EXCEPT ![i] = "done"]
    /\ doneOrder' = Append(doneOrder, i)

\* lines 50-87: the task runs from its start to its first suspension: the gate
\* (the task waits before it while no permit is free), the skip test and, for a
\* transcript, the submission of the client call to the executor.  The import of
\* line 50 is of a module that line 122 has already loaded.
TaskStart(i) ==
    /\ mainpc = "gathering"
    /\ pc[i] = "created"
    /\ UNCHANGED <<input, concurrency, client, mainpc, callResult,
                   results, output, summary, raw, parsed>>
    /\ CanAcquire
    /\ call_id' = [call_id EXCEPT ![i] = CallId(calls[i], i)]
    /\ LET transcript == DictGet(calls[i], KeyTranscript)
       IN  IF SkipTestRaises(transcript)
           THEN /\ pc' = [pc EXCEPT ![i] = "raised"]
                /\ UNCHANGED <<calls, sem, inflight, doneOrder, clientCalls, written>>
           ELSE IF SkipTest(transcript)
           THEN /\ WriteAnnotation(i, "Skipped", JNull)
                /\ TaskReturns(i)
                /\ UNCHANGED <<sem, inflight, clientCalls>>
           ELSE /\ sem' = sem - 1
                /\ pc' = [pc EXCEPT ![i] = "calling"]
                /\ inflight' = inflight \cup {i}
                /\ clientCalls' = [clientCalls EXCEPT ![i] = @ + 1]
                /\ UNCHANGED <<calls, doneOrder, written>>

\* a failed call stored as the null marker instead of an error document
OutcomeAnnotationSwallow(outcome) ==
    IF outcome.ok THEN Annotation(outcome.text) ELSE JNull

\* a value that depends on the load: a call that ends while another call is
\* running is stored as the null marker
OutcomeAnnotationWhenAlone(outcome) ==
    IF inflight' # {} THEN JNull
    ELSE IF outcome.ok THEN Annotation(outcome.text) ELSE TransportErrorDoc(outcome.text)

\* lines 89-109: the value stored for the outcome of the client call
OutcomeAnnotation(outcome) ==
    IF outcome.ok THEN Annotation(outcome.text) ELSE TransportErrorDoc(outcome.text)

\* which assignment stores it: line 101 (Success) or lines 105, 109 (Error)
OutcomeVariant(outcome) ==
    IF outcome.ok /\ JsonLoads(CleanUp(outcome.text)).ok THEN "Success" ELSE "Error"

\* lines 80-111: the client call of task i returns or raises in its thread; a task
\* still waiting for it resumes, stores the annotation, leaves the gate and returns
CallComplete(i) ==
    /\ i \in inflight
    /\ inflight' = inflight \ {i}
    /\ UNCHANGED <<input, concurrency, client, mainpc, call_id, clientCalls,
                   results, output, summary, raw, parsed>>
    /\ IF pc[i] = "calling"
       THEN \E outcome \in client[DictGet(calls[i], KeyTranscript).s] :
                /\ callResult' = [callResult EXCEPT ![i] = Append(@, outcome)]
                /\ WriteAnnotation(i, OutcomeVariant(outcome), OutcomeAnnotation(outcome))
                /\ TaskReturns(i)
                /\ sem' = Released(1)
       ELSE UNCHANGED <<calls, sem, pc, doneOrder, callResult, written>>

----------------------------------------------------------------------------
(* analyze_all_calls *)

\* variant in which main goes on after the prompt file was not found
PromptLoadedOrMissing == mainpc \in {"prompt_loaded", "no_prompt"}

\* lines 180-192: main reaches asyncio.run only with the prompt template loaded
PromptLoaded == mainpc = "prompt_loaded"

\* variant in which gather returns as soon as one task has returned
SomeTaskDone == \E i \in Indexes : pc[i] = "done"

\* variant in which gather also returns when a task has ended with an exception
AllTasksEnded == \A i \in Indexes : pc[i] \in {"done", "raised"}

\* line 140: gather returns when every task has returned
AllTasksDone == \A i \in Indexes : pc[i] = "done"

\* lines 134-137: one task per call, in the order of the list
CreateTasks == [i \in Indexes |-> "created"]

\* the results collected in the order in which the tasks completed
GatherInCompletionOrder == [i \in Indexes |-> calls[doneOrder[i]]]

\* line 140: asyncio.gather returns the tasks' results in the order of the tasks;
\* task i returns the dict calls[i]
Gather == [i \in Indexes |-> calls[i]]

\* lines 121-137: the import of the client library, the semaphore and the tasks
StartAnalysis ==
    /\ PromptLoaded
    /\ UNCHANGED <<calls, input, concurrency, client, callResult, inflight, doneOrder, call_id, clientCalls,
                   written, output, summary, raw, parsed>>
    /\ \E installed \in BOOLEAN :
          IF installed
          THEN /\ sem' = concurrency
               /\ pc' = CreateTasks
               /\ mainpc' = "gathering"
               /\ UNCHANGED results
          ELSE /\ results' = JArr(calls)
               /\ mainpc' = "returned"
               /\ UNCHANGED <<sem, pc>>

\* lines 140-141: every task has returned: gather gives the list of their results
GatherReturn ==
    /\ mainpc = "gathering"
    /\ AllTasksDone
    /\ results' = JArr(Gather)
    /\ mainpc' = "returned"
    /\ UNCHANGED <<calls, input, concurrency, client, callResult, sem, pc, inflight, doneOrder,
                   call_id, clientCalls, written, output, summary, raw, parsed>>

\* lines 140, 192: a task raised: gather re-raises in analyze_all_calls, the
\* exception leaves asyncio.run, which cancels the tasks that have not finished
\* (a task cancelled inside the gate leaves it; its thread runs on), and main dies
GatherRaise ==
    /\ mainpc = "gathering"
    /\ \E i \in Indexes : pc[i] = "raised"
    /\ mainpc' = "crashed"
    /\ pc' = [i \in Indexes |-> IF pc[i] \in {"created", "calling"} THEN "cancelled" ELSE pc[i]]
    /\ sem' = Released(Cardinality({i \in Indexes : pc[i] = "calling"}))
    /\ UNCHANGED <<calls, input, concurrency, client, callResult, inflight, doneOrder, call_id,
                   clientCalls, written, results, output, summary, raw, parsed>>

----------------------------------------------------------------------------
(* main *)

\* variant that counts every annotation that is not null as a success
CountsAsSuccessNotNull(c) == DictGet(c, KeyLlmAnalysis).t # "null"

\* line 201
CountsAsSuccess(c) ==
    LET a == DictGet(c, KeyLlmAnalysis)
    IN  \/ Truthy(a) /\ a.t # "obj"
        \/ a.t = "obj" /\ ~HasKey(a, KeyError)

\* variant that counts every falsy annotation as skipped
CountsAsSkippedFalsy(c) == ~Truthy(DictGet(c, KeyLlmAnalysis))

\* line 202
CountsAsSkipped(c) == DictGet(c, KeyLlmAnalysis).t = "null"

\* variant that counts only the documents of a decode failure
CountsAsErrorWithRaw(c) ==
    LET a == DictGet(c, KeyLlmAnalysis)
    IN  a.t = "obj" /\ HasKey(a, KeyError) /\ HasKey(a, KeyRaw)

\* line 203
CountsAsError(c) ==
    LET a == DictGet(c, KeyLlmAnalysis)
    IN  a.t = "obj" /\ HasKey(a, KeyError)

\* lines 201-206: the counts over analyzed_calls
Summarize(analyzed) ==
    [total |-> Len(analyzed),
     success |-> Cardinality({i \in 1..Len(analyzed) : CountsAsSuccess(analyzed[i])}),
     skipped |-> Cardinality({i \in 1..Len(analyzed) : CountsAsSkipped(analyzed[i])}),
     errors |-> Cardinality({i \in 1..Len(analyzed) : CountsAsError(analyzed[i])})]

\* lines 171-185: the prompt file is read, or main reports it missing and returns
LoadPrompt ==
    /\ mainpc = "loaded"
    /\ \E found \in BOOLEAN : mainpc' = IF found THEN "prompt_loaded" ELSE "no_prompt"
    /\ UNCHANGED <<calls, input, concurrency, client, callResult, sem, pc, inflight, doneOrder,
                   call_id, clientCalls, written, results, output, summary, raw, parsed>>

\* lines 196-198: json.dump(analyzed_calls) to the output file
WriteOutput ==
    /\ mainpc = "returned"
    /\ output' = results
    /\ mainpc' = "written"
    /\ UNCHANGED <<calls, input, concurrency, client, callResult, sem, pc, inflight, doneOrder,
                   call_id, clientCalls, written, results, summary, raw, parsed>>

\* lines 200-210: the counts are computed and printed
CountResults ==
    /\ mainpc = "written"
    /\ summary' = Summarize(results.items)
    /\ mainpc' = "done"
    /\ UNCHANGED <<calls, input, concurrency, client, callResult, sem, pc, inflight, doneOrder,
                   call_id, clientCalls, written, results, output, raw, parsed>>

----------------------------------------------------------------------------
(* The batch study: main from the loaded input to its end *)

\* the lists of at most MaxN calls
CallLists == UNION {[1..n -> RecordInputs] : n \in 0..MaxN}

\* the transcripts a client can be called with
TranscriptTexts ==
    { DictGet(r, KeyTranscript).s : r \in {q \in RecordInputs : DictGet(q, KeyTranscript).t = "str"} }

\* a client that may answer any call with any of the outcomes
AnyClient == [t \in TranscriptTexts |-> ClientOutcomes]

\* lines 158-169: the arguments are parsed and the input file is loaded
InitBatch(list, k, cl) ==
    /\ calls = list
    /\ input = calls
    /\ concurrency = k
    /\ client = cl
    /\ mainpc = "loaded"
    /\ sem = 0
    /\ pc = [i \in 1..Len(calls) |-> "none"]
    /\ inflight = {}
    /\ doneOrder = <<>>
    /\ call_id = [i \in 1..Len(calls) |-> Absent]
    /\ clientCalls = [i \in 1..Len(calls) |-> 0]
    /\ callResult = [i \in 1..Len(calls) |-> <<>>]
    /\ written = [i \in 1..Len(calls) |-> <<>>]
    /\ results = NoResult
    /\ output = NoResult
    /\ summary = NoSummary
    /\ raw = <<>>
    /\ parsed = NotRun

Init == \E list \in CallLists, k \in 0..MaxK : InitBatch(list, k, AnyClient)

Next ==
    \/ LoadPrompt
    \/ StartAnalysis
    \/ \E i \in Indexes : TaskStart(i)
    \/ \E i \in Indexes : CallComplete(i)
    \/ GatherReturn
    \/ GatherRaise
    \/ WriteOutput
    \/ CountResults

Spec == Init /\ [][Next]_vars

\* the event loop runs a task that can run, and a client call returns or fails
FairSpec == Spec /\ WF_vars(Next)

----------------------------------------------------------------------------
(* The parser study: lines 89-105 applied to one response text *)

\* a response that does not decode and is one character longer than the excerpt
LongBody == <<"o">> \o [k \in 1..RawCap |-> "x"]

TextBodies ==
    { TextX1,
      TextError,
      <<"n", "u", "l", "l">>,
      <<"0">>,
      <<"[", "]">>,
      <<"o", "o", "p", "s">>,
      <<"{", Q, "x", Q, ":", "1">>,
      <<>>,
      LongBody }

\* what precedes the body: nothing, or an opening fence line with or without a tag
Openers ==
    { <<>>,
      FenceJson \o <<"\n">>,
      FenceJson,
      Fence \o <<"\n">>,
      Fence \o <<"p", "y", "\n">> }

\* what follows the body: nothing, or a closing fence
Closers == { <<>>, <<"\n">> \o Fence, Fence }

Paddings == { <<>>, <<" ", "\n">> }

Compose(pad, opener, body, closer) == pad \o opener \o body \o closer \o pad

ParserTexts ==
    { Compose(p, o, b, c) : p \in Paddings, o \in Openers, b \in TextBodies, c \in Closers }

InitParser ==
    /\ raw \in ParserTexts
    /\ parsed = NotRun
    /\ calls = <<>>
    /\ input = <<>>
    /\ concurrency = 0
    /\ client = <<>>
    /\ mainpc = "parser"
    /\ sem = 0
    /\ pc = <<>>
    /\ inflight = {}
    /\ doneOrder = <<>>
    /\ call_id = <<>>
    /\ clientCalls = <<>>
    /\ callResult = <<>>
    /\ written = <<>>
    /\ results = NoResult
    /\ output = NoResult
    /\ summary = NoSummary

\* lines 89-105 on response.text = raw
ParseStep ==
    /\ mainpc = "parser"
    /\ parsed = NotRun
    /\ parsed' = Annotation(raw)
    /\ UNCHANGED <<raw, batchVars>>

NextParser == ParseStep

SpecParser == InitParser /\ [][NextParser]_vars

----------------------------------------------------------------------------
(* Vocabulary of the properties *)

\* c['llm_analysis'], Absent when the key is missing
LlmAnalysis(c) == IF HasKey(c, KeyLlmAnalysis) THEN DictGet(c, KeyLlmAnalysis) ELSE Absent

\* c['transcript'], Absent when the key is missing
Transcript(c) == IF HasKey(c, KeyTranscript) THEN DictGet(c, KeyTranscript) ELSE Absent

\* the fields of a call dict other than the annotation, in order
Frame(c) ==
    LET keep == {n \in 1..Len(c.keys) : c.keys[n] # KeyLlmAnalysis}
    IN  {<<Cardinality({m \in keep : m <= n}), c.keys[n], c.items[n]>> : n \in keep}

\* the transcript is absent, null, empty or whitespace-only
IsBlankTranscript(c) ==
    \/ Transcript(c).t \in {"absent", "null"}
    \/ /\ Transcript(c).t = "str"
       /\ \A n \in 1..Len(Transcript(c).s) : Transcript(c).s[n] \in {" ", "\t", "\n", "\r"}

\* the last value a task assigned to its annotation field
LastWritten(i) == written[i][Len(written[i])].value

\* analyze_all_calls has returned the results of its tasks
BatchCompleted ==
    /\ mainpc \in {"returned", "written", "done"}
    /\ \A i \in DOMAIN pc : pc[i] = "done"

DocErrorE == JObj(<<KeyError>>, <<JStr(<<"e">>)>>)

\* the documents the texts of the batch study stand for
BatchDocuments == {DocX1, JNull, JNum(<<"0">>), DocErrorE}

----------------------------------------------------------------------------
(* C1: in every reachable state the number of client calls that have started  *)
(* and not yet returned or failed is at most the concurrency limit.           *)
C1_InFlightAtMostK == Cardinality(inflight) <= concurrency

\* the gate is full while another task with a transcript waits before it
C1_Witness ==
    /\ concurrency >= 1
    /\ Cardinality(inflight) = concurrency
    /\ \E i \in DOMAIN pc : pc[i] = "created" /\ ~IsBlankTranscript(input[i])
                            /\ Transcript(input[i]).t = "str"

(* C2: the list analyze_all_calls returns has one element per input record,   *)
(* and its element i is input record i carrying what task i itself stored,    *)
(* whatever the order in which the tasks completed.                           *)
C2_OrderPreserved ==
    mainpc \in {"returned", "written", "done"} =>
        /\ results.t = "arr"
        /\ Len(results.items) = Len(input)
        /\ \A i \in 1..Len(input) :
              /\ Frame(results.items[i]) = Frame(input[i])
              /\ written[i] # <<>> => LlmAnalysis(results.items[i]) = LastWritten(i)

\* two different records whose tasks completed in the reverse of the input order
C2_Witness ==
    /\ mainpc = "returned"
    /\ Len(input) = 2
    /\ doneOrder = <<2, 1>>
    /\ Frame(input[1]) # Frame(input[2])
    /\ LastWritten(1) # LastWritten(2)

(* C3: with K >= 1 every task that was created reaches its own outcome: none  *)
(* is cancelled, and the run never leaves the batch with a task that has not  *)
(* stored its outcome.                                                        *)
C3_EveryTaskReachesOutcome ==
    concurrency >= 1 =>
        \A i \in DOMAIN pc :
            /\ pc[i] # "cancelled"
            /\ (mainpc # "gathering" /\ pc[i] # "none") => pc[i] = "done"

\* what remains of C3 when no transcript makes the skip test raise: under
\* FairSpec a dispatched batch with K >= 1 completes with every task done
TextBatchesComplete ==
    (/\ concurrency >= 1
     /\ mainpc = "gathering"
     /\ \A i \in DOMAIN pc : ~SkipTestRaises(DictGet(input[i], KeyTranscript)))
        ~> (mainpc = "done" /\ \A i \in DOMAIN pc : pc[i] = "done")

(* C4: an exception in a task is caught inside the task and becomes that      *)
(* record's Error outcome: no task ends by raising, no sibling is cancelled   *)
(* and the batch is not terminated.                                           *)
C4_FailureContained ==
    /\ mainpc # "crashed"
    /\ \A i \in DOMAIN pc : pc[i] \notin {"raised", "cancelled"}

(* C5: for every completed batch the counts main reports satisfy              *)
(* success + skipped + errors = total.                                        *)
C5_SummaryAddsUp ==
    mainpc = "done" => summary.success + summary.skipped + summary.errors = summary.total

(* C6: for a record whose transcript is absent, empty or whitespace-only the  *)
(* client is never called, and the annotation its task stores is exactly the  *)
(* null marker.                                                               *)
C6_SkipNeverCallsClient ==
    \A i \in DOMAIN pc :
        IsBlankTranscript(input[i]) =>
            /\ clientCalls[i] = 0
            /\ i \notin inflight
            /\ pc[i] \notin {"calling", "raised"}
            /\ pc[i] = "done" =>
                  /\ written[i] = <<[variant |-> "Skipped", value |-> JNull]>>
                  /\ LlmAnalysis(calls[i]) = JNull

\* the task of a whitespace-only transcript has returned
C6_Witness ==
    \E i \in DOMAIN pc :
        /\ pc[i] = "done"
        /\ Transcript(input[i]).t = "str"
        /\ Len(Transcript(input[i]).s) > 0
        /\ IsBlankTranscript(input[i])

(* C7: in every completed batch each record's annotation was assigned exactly *)
(* once, by one outcome variant, and holds what that variant stores: null for *)
(* Skipped, the decoded document for Success, an error document for Error.    *)
C7_ExactlyOneOutcome ==
    BatchCompleted =>
        \A i \in DOMAIN pc :
            /\ Len(written[i]) = 1
            /\ LlmAnalysis(calls[i]) = written[i][1].value
            /\ \/ written[i][1].variant = "Skipped" /\ written[i][1].value = JNull
               \/ written[i][1].variant = "Success" /\ written[i][1].value \in BatchDocuments
               \/ /\ written[i][1].variant = "Error"
                  /\ written[i][1].value.t = "obj"
                  /\ HasKey(written[i][1].value, KeyError)

\* a completed batch holding a Skipped, and an Error made by a failed call
C7_Witness ==
    /\ BatchCompleted
    /\ Len(input) = 2
    /\ written[1][1].variant = "Skipped"
    /\ written[2][1] = [variant |-> "Error", value |-> JObj(<<KeyError>>, <<JStr(<<"t", "i", "m", "e", "o", "u", "t">>)>>)]

(* C8: the counts main reports are the true outcome counts: success is the    *)
(* number of records whose call returned and whose output decoded, skipped    *)
(* the number of records without a transcript, errors the number of records   *)
(* whose call failed or whose output did not decode.                          *)
C8_SummaryReflectsOutcomes ==
    (mainpc = "done" /\ BatchCompleted) =>
        /\ summary.success =
              Cardinality({i \in DOMAIN pc : written[i] # <<>> /\ written[i][1].variant = "Success"})
        /\ summary.skipped = Cardinality({i \in DOMAIN pc : IsBlankTranscript(input[i])})
        /\ summary.errors =
              Cardinality({i \in DOMAIN pc : written[i] # <<>> /\ written[i][1].variant = "Error"})

(* C9: a task writes the annotation field of its own record and nothing else: *)
(* the other fields of every record stay as loaded, a record whose task has   *)
(* not written is untouched, a written annotation is the one its own task     *)
(* stored, and the other fields reach the output unchanged.                   *)
C9_OnlyOwnAnnotationWritten ==
    /\ Len(calls) = Len(input)
    /\ \A i \in DOMAIN pc :
          /\ Frame(calls[i]) = Frame(input[i])
          /\ written[i] = <<>> => calls[i] = input[i]
          /\ written[i] # <<>> => LlmAnalysis(calls[i]) = LastWritten(i)
    /\ output # NoResult =>
          \A i \in 1..Len(input) : Frame(output.items[i]) = Frame(input[i])

\* both tasks of a two-record list have written, the second a record with other
\* fields, and the output is written
C9_Witness ==
    /\ Len(input) = 2
    /\ output # NoResult
    /\ written[1] # <<>>
    /\ written[2] # <<>>
    /\ LastWritten(1) # LastWritten(2)
    /\ HasKey(input[2], KeyType)

\* the document a body of the parser study decodes to
DecodedBody(b) ==
    CASE b = TextX1 -> DocX1
      [] b = TextError -> DocErrorE
      [] b = <<"n", "u", "l", "l">> -> JNull
      [] b = <<"0">> -> JNum(<<"0">>)
      [] b = <<"[", "]">> -> JArr(<<>>)
      [] OTHER -> Absent

(* C10: when the raw output starts with a fence marker, with any language tag *)
(* or none, the opening fence, its tag and a closing fence are stripped and   *)
(* the remainder is decoded: a fenced decodable body yields its document.     *)
C10_FencedOutputDecodes ==
    parsed # NotRun =>
        \A p \in Paddings, o \in Openers \ {<<>>}, b \in TextBodies, c \in Closers :
            (raw = Compose(p, o, b, c) /\ DecodedBody(b) # Absent) => parsed = DecodedBody(b)

\* the part of C10 that holds: an opening fence tagged json is stripped
JsonFenceDecodes ==
    parsed # NotRun =>
        \A p \in Paddings, o \in {FenceJson, FenceJson \o <<"\n">>}, b \in TextBodies,
           c \in Closers :
            (raw = Compose(p, o, b, c) /\ DecodedBody(b) # Absent) => parsed = DecodedBody(b)

\* an opening fence line: the fence, an optional tag, a line break
FenceLines == { FenceJson \o <<"\n">>, Fence \o <<"\n">>, Fence \o <<"p", "y", "\n">> }

\* T wrapped in fence markers: opening fence line, T, closing fence
Wrapped(o, body) == Compose(<<>>, o, body, <<"\n">> \o Fence)

\* the stored value is the Error document of a decode failure
IsParseError(d) == d.t = "obj" /\ d.keys = <<KeyError, KeyRaw>>

(* C11: for every text T free of fence markers, T wrapped in an opening fence *)
(* line and a closing fence parses to what T parses to: the same document     *)
(* when T decodes, a parse failure for both when it does not.                 *)
C11_WrappedParsesAsPlain ==
    parsed # NotRun =>
        \A o \in FenceLines, b \in TextBodies :
            raw = Wrapped(o, b) =>
                IF DecodedBody(b) # Absent
                THEN Annotation(b) = DecodedBody(b) /\ parsed = DecodedBody(b)
                ELSE IsParseError(Annotation(b)) /\ IsParseError(parsed)

\* the part of C11 that holds: wrapping in a fence tagged json changes nothing
JsonWrappedParsesAsPlain ==
    parsed # NotRun =>
        \A b \in TextBodies :
            raw = Wrapped(FenceJson \o <<"\n">>, b) => parsed = Annotation(b)

(* C12: when the response text does not decode, the stored value is an Error  *)
(* document with the keys error and raw and never the decoded document; raw   *)
(* is the first RawCap characters of the text that failed to decode, so it    *)
(* has at most RawCap characters and a longer text is never stored whole.     *)
C12_DecodeFailureKeepsExcerpt ==
    (parsed # NotRun /\ ~JsonLoads(CleanUp(raw)).ok) =>
        LET text == CleanUp(raw)
            excerpt == parsed.items[2]
        IN  /\ parsed.t = "obj"
            /\ parsed.keys = <<KeyError, KeyRaw>>
            /\ parsed.items[1].t = "str"
            /\ excerpt.t = "str"
            /\ Len(excerpt.s) <= RawCap
            /\ Len(excerpt.s) = (IF Len(text) <= RawCap THEN Len(text) ELSE RawCap)
            /\ \A n \in 1..Len(excerpt.s) : excerpt.s[n] = text[n]
            /\ Len(text) > RawCap => excerpt.s # text
            /\ \A p \in Paddings : raw = Compose(p, <<>>, LongBody, <<>>) =>
                   excerpt.s = SubSeq(LongBody, 1, RawCap)

\* a response longer than the excerpt failed to decode and was cut
C12_Witness ==
    /\ parsed # NotRun
    /\ raw = LongBody
    /\ IsParseError(parsed)
    /\ Len(parsed.items[2].s) = RawCap
    /\ Len(raw) > RawCap

\* the client call of task i raised
CallRaised(i) == callResult[i] # <<>> /\ ~callResult[i][1].ok

(* C13: when the client call of a record raises, the record's outcome is an   *)
(* Error document whose error field is the message of the failure and which   *)
(* has no raw field; it is the only value stored, nothing decoded is stored.  *)
C13_TransportFailureIsError ==
    \A i \in DOMAIN callResult :
        CallRaised(i) =>
            LET doc == JObj(<<KeyError>>, <<JStr(callResult[i][1].text)>>)
            IN  /\ written[i] = <<[variant |-> "Error", value |-> doc]>>
                /\ LlmAnalysis(calls[i]) = doc
                /\ ~HasKey(LlmAnalysis(calls[i]), KeyRaw)
                /\ Len(callResult[i]) = 1

\* a run ended in which the call of one record raised and that of another returned
C13_Witness ==
    /\ mainpc = "done"
    /\ \E i, j \in DOMAIN callResult :
           CallRaised(i) /\ callResult[j] # <<>> /\ callResult[j][1].ok

\* analyze_all_calls returned at line 125: the client library is not installed
\* and no task was ever created
LibraryMissing ==
    /\ mainpc \in {"returned", "written", "done"}
    /\ \E i \in DOMAIN pc : pc[i] = "none"

(* C14: when the client library cannot be imported the whole run is aborted   *)
(* before any task is dispatched: no client call is made, no record is        *)
(* annotated, no enriched output is written and no summary is reported.       *)
C14_MissingLibraryAborts ==
    LibraryMissing =>
        /\ \A i \in DOMAIN pc : pc[i] = "none" /\ clientCalls[i] = 0 /\ written[i] = <<>>
        /\ calls = input
        /\ output = NoResult
        /\ summary = NoSummary

\* the part of C14 that holds: nothing is dispatched and no record is annotated
MissingLibraryDispatchesNothing ==
    LibraryMissing =>
        /\ \A i \in DOMAIN pc : pc[i] = "none" /\ clientCalls[i] = 0 /\ written[i] = <<>>
        /\ calls = input
        /\ inflight = {}

(* C15: when the prompt template file is not found main stops before any work *)
(* is dispatched: no task is created, no client call is made, no record is    *)
(* modified, no output is written, and nothing more happens in the run.       *)
C15_MissingPromptStops ==
    mainpc = "no_prompt" =>
        /\ \A i \in DOMAIN pc : pc[i] = "none" /\ clientCalls[i] = 0 /\ written[i] = <<>>
        /\ inflight = {}
        /\ calls = input
        /\ results = NoResult
        /\ output = NoResult
        /\ summary = NoSummary
        /\ ~ENABLED Next

\* main stopped for a missing prompt with two records loaded
C15_Witness ==
    /\ mainpc = "no_prompt"
    /\ Len(input) = 2
    /\ \E i \in DOMAIN input : ~IsBlankTranscript(input[i])

\* a non-empty batch in which the client call of every record has raised
AllCallsFailed == callResult # <<>> /\ \A i \in DOMAIN callResult : CallRaised(i)

(* C16: a non-empty batch in which every client call fails completes          *)
(* normally: main is never stuck or crashed, every record gets an Error       *)
(* outcome, all N records are written, and the summary counts N errors and    *)
(* no success.                                                                *)
C16_AllFailedBatchCompletes ==
    AllCallsFailed =>
        /\ mainpc \in {"gathering", "returned", "written", "done"}
        /\ mainpc # "done" => ENABLED Next
        /\ \A i \in DOMAIN written :
               /\ Len(written[i]) = 1
               /\ written[i][1].variant = "Error"
               /\ LlmAnalysis(calls[i]) = JObj(<<KeyError>>, <<JStr(callResult[i][1].text)>>)
        /\ mainpc \in {"written", "done"} =>
               /\ output.t = "arr"
               /\ Len(output.items) = Len(input)
               /\ \A i \in DOMAIN input :
                      /\ Frame(output.items[i]) = Frame(input[i])
                      /\ LlmAnalysis(output.items[i]) =
                             JObj(<<KeyError>>, <<JStr(callResult[i][1].text)>>)
        /\ mainpc = "done" =>
               summary = [total |-> Len(input), success |-> 0, skipped |-> 0,
                          errors |-> Len(input)]

\* a batch of two records ended with both client calls failed
C16_Witness ==
    /\ AllCallsFailed
    /\ Len(input) = 2
    /\ mainpc = "done"
    /\ summary.errors = 2

----------------------------------------------------------------------------
(* The scenario of three records under K = 2 *)

Hello == <<"h", "e", "l", "l", "o">>

World == <<"w", "o", "r", "l", "d">>

Timeout == <<"t", "i", "m", "e", "o", "u", "t">>

ScenarioCalls ==
    << JObj(<<KeyId, KeyTranscript>>, <<JStr(<<"a">>), JStr(Hello)>>),
       JObj(<<KeyId, KeyTranscript>>, <<JStr(<<"b">>), JStr(<<>>)>>),
       JObj(<<KeyId, KeyTranscript>>, <<JStr(<<"c">>), JStr(World)>>) >>

\* the valid JSON objects the client returns for hello: bare, fenced, empty
ScenarioObjects == { TextX1, FenceJson \o <<"\n">> \o TextX1 \o <<"\n">> \o Fence, <<"{", "}">> }

\* a client that returns an object for hello and raises a timeout for world
ScenarioClient ==
    [t \in TranscriptTexts |->
        IF t = Hello THEN {[ok |-> TRUE, text |-> x] : x \in ScenarioObjects}
        ELSE IF t = World THEN {[ok |-> FALSE, text |-> Timeout]}
        ELSE {}]

InitScenario == InitBatch(ScenarioCalls, 2, ScenarioClient)

\* no task of the scenario raises, so gather never re-raises
NextScenario ==
    \/ LoadPrompt
    \/ StartAnalysis
    \/ \E i \in Indexes : TaskStart(i)
    \/ \E i \in Indexes : CallComplete(i)
    \/ GatherReturn
    \/ WriteOutput
    \/ CountResults

SpecScenario == InitScenario /\ [][NextScenario]_vars

C19_SkipNeverAtGate ==
    \A i \in DOMAIN pc :
        (concurrency >= 1 /\ mainpc = "gathering" /\ pc[i] = "created"
            /\ IsBlankTranscript(calls[i])) =>
                ENABLED TaskStart(i)

\* the part of C19 that holds: a skipped record never keeps a permit, so the
\* permits taken are exactly those of the client calls that are running
SkipNeverHoldsPermit ==
    /\ \A i \in DOMAIN pc : IsBlankTranscript(calls[i]) => pc[i] # "calling" /\ i \notin inflight
    /\ mainpc = "gathering" =>
           sem = concurrency - Cardinality({i \in DOMAIN pc : pc[i] = "calling"})

RECURSIVE IntChars(_)
\* str(n) of a natural number
IntChars(n) ==
    IF n < 10 THEN <<DigitChar(n)>> ELSE IntChars(n \div 10) \o <<DigitChar(n % 10)>>

\* str(e) of the JSONDecodeError raised by json.loads(s), the diagnostic that
\* line 104 prints: msg: line L column C (char P)
DecodeErrorText(s) ==
    LET e == JsonLoads(s)
        pos == e.at - 1
        breaks == {n \in 1..pos : s[n] = "\n"}
        lineno == Cardinality(breaks) + 1
        colno == IF breaks = {} THEN pos + 1
                 ELSE e.at - (CHOOSE m \in breaks : \A n \in breaks : n <= m)
    IN  e.msg \o <<":", " ", "l", "i", "n", "e", " ">> \o IntChars(lineno)
          \o <<" ", "c", "o", "l", "u", "m", "n", " ">> \o IntChars(colno)
          \o <<" ", "(", "c", "h", "a", "r", " ">> \o IntChars(pos) \o <<")">>

(* C20: on a decode failure the Error document written to the record carries  *)
(* the diagnostic of the decoder as its error message, together with the      *)
(* excerpt of at most RawCap characters.                                      *)
C20_ErrorCarriesDiagnostic ==
    (parsed # NotRun /\ ~JsonLoads(CleanUp(raw)).ok) =>
        /\ IsParseError(parsed)
        /\ parsed.items[1] = JStr(DecodeErrorText(CleanUp(raw)))
        /\ parsed.items[2] = JStr(Prefix(CleanUp(raw), RawCap))

\* what the code stores instead: one fixed message for every decode failure
DecodeFailureMessageIsFixed ==
    (parsed # NotRun /\ ~JsonLoads(CleanUp(raw)).ok) =>
        /\ IsParseError(parsed)
        /\ parsed.items[1] = JStr(MsgInvalidJson)
        /\ parsed.items[2] = JStr(Prefix(CleanUp(raw), RawCap))

(* C21: when the output is empty after trimming, or consists only of fence    *)
(* markers, the stored value is the Error document of a decode failure with   *)
(* an empty excerpt, never the null marker and never a decoded document.      *)
C21_EmptyOutputIsDecodeFailure ==
    parsed # NotRun =>
        \A p \in Paddings, o \in Openers, c \in Closers :
            raw = Compose(p, o, <<>>, c) =>
                /\ IsParseError(parsed)
                /\ parsed.items[2] = JStr(<<>>)

\* the part of C21 that holds: such an output is always a decode failure, and
\* its excerpt is empty unless an opening fence not tagged json was left in it
EmptyOutputIsError ==
    parsed # NotRun =>
        \A p \in Paddings, o \in Openers, c \in Closers :
            raw = Compose(p, o, <<>>, c) =>
                /\ IsParseError(parsed)
                /\ o \in {<<>>, FenceJson, FenceJson \o <<"\n">>} => parsed.items[2] = JStr(<<>>)

\* what is stored when exactly the text is handed to json.loads
StoredFor(text) ==
    IF JsonLoads(text).ok THEN JsonLoads(text).v
    ELSE JObj(<<KeyError, KeyRaw>>,
              <<JStr(MsgInvalidJson), JStr(SubSeq(text, 1, IF Len(text) < RawCap THEN Len(text) ELSE RawCap))>>)

(* C22: fence stripping is applied only to text that starts with a fence      *)
(* marker: for any other text the decoder is handed the trimmed text          *)
(* unchanged, so a trailing fence on unfenced text is not removed.            *)
C22_StrippingOnlyWhenFenced ==
    (parsed # NotRun /\ ~StartsWith(Strip(raw), Fence)) =>
        /\ CleanUp(raw) = Strip(raw)
        /\ parsed = StoredFor(Strip(raw))

\* the part of C22 that holds: text that neither starts nor ends with a fence
\* marker is handed to the decoder trimmed and otherwise unchanged
UnfencedTextUnchanged ==
    (parsed # NotRun /\ ~StartsWith(Strip(raw), Fence) /\ ~EndsWith(Strip(raw), Fence)) =>
        /\ CleanUp(raw) = Strip(raw)
        /\ parsed = StoredFor(Strip(raw))

\* the identifier index_<i> of the record at input index i (the first is 0)
SynthesizedId(i) == JStr(<<"i", "n", "d", "e", "x", "_">> \o IntChars(i))

(* C23: for a record without usable identifier, the id key missing or present *)
(* with a null value, the identifier its task reports with is index_<i>, i    *)
(* the input index of the record.                                             *)
C23_IdentifierSynthesized ==
    \A i \in DOMAIN call_id :
        (call_id[i] # Absent /\ (~HasKey(input[i], KeyId) \/ DictGet(input[i], KeyId) = JNull)) =>
            call_id[i] = SynthesizedId(i - 1)

\* the part of C23 that holds: the identifier is synthesized when the key is
\* missing, and is the id of the record when that is not null
MissingIdSynthesized ==
    \A i \in DOMAIN call_id :
        call_id[i] # Absent =>
            /\ ~HasKey(input[i], KeyId) => call_id[i] = SynthesizedId(i - 1)
            /\ (HasKey(input[i], KeyId) /\ DictGet(input[i], KeyId) # JNull) =>
                   call_id[i] = DictGet(input[i], KeyId)

\* the tasks that are inside "async with semaphore", suspended in their call
GateHolders == {i \in DOMAIN pc : pc[i] = "calling"}

(* C24: no task waits on another task: a task is blocked only at the gate or  *)
(* in its own client call.  Whenever fewer than K tasks hold the gate a task  *)
(* waiting at it can proceed, and a task in its call proceeds as soon as the  *)
(* call ends, whatever the other tasks have done.                             *)
C24_NoTaskWaitsOnAnother ==
    \A i \in DOMAIN pc :
        /\ (mainpc = "gathering" /\ pc[i] = "created" /\ Cardinality(GateHolders) < concurrency) =>
               ENABLED TaskStart(i)
        /\ pc[i] = "calling" => ENABLED CallComplete(i)

\* a task with a transcript is at the gate, a permit is free, and it can proceed
\* while another task is suspended in its call
C24_Witness ==
    /\ mainpc = "gathering"
    /\ concurrency = 2
    /\ \E i, j \in DOMAIN pc :
           /\ pc[i] = "calling"
           /\ pc[j] = "created"
           /\ ~IsBlankTranscript(calls[j])
           /\ ENABLED TaskStart(j)

(* C25: the gate is released on every exit path of a task: once the gate      *)
(* exists, the free permits plus the tasks holding it are K with              *)
(* 0 <= free permits <= K, and the free permits are K when the batch has      *)
(* completed and when an exception that escaped a task has ended the run.     *)
C25_GateAlwaysReleased ==
    (mainpc = "gathering" \/ \E i \in DOMAIN pc : pc[i] # "none") =>
        /\ sem + Cardinality(GateHolders) = concurrency
        /\ 0 <= sem
        /\ sem <= concurrency
        /\ (BatchCompleted \/ mainpc = "crashed") => sem = concurrency

\* a batch of two records completed under K = 1, the single permit used twice
C25_Witness ==
    /\ BatchCompleted
    /\ concurrency = 1
    /\ sem = 1
    /\ Len(input) = 2
    /\ \A i \in DOMAIN callResult : callResult[i] # <<>>

\* a run ended by an escaped exception while a sibling held the gate
C25_CrashWitness ==
    /\ mainpc = "crashed"
    /\ sem = concurrency
    /\ \E i \in DOMAIN pc : pc[i] = "cancelled" /\ clientCalls[i] = 1

(* C26: the limit is not validated: with K = 0 and at least one record every  *)
(* task is created but none ever passes the gate, so no client call is made,  *)
(* no record is annotated, and the batch never completes: nothing is written  *)
(* and no step of the run is possible any more.                               *)
C26_ZeroLimitNeverCompletes ==
    (concurrency = 0 /\ \E i \in DOMAIN pc : pc[i] # "none") =>
        /\ mainpc = "gathering"
        /\ \A i \in DOMAIN pc :
               pc[i] = "created" /\ clientCalls[i] = 0 /\ written[i] = <<>> /\ call_id[i] = Absent
        /\ inflight = {}
        /\ calls = input
        /\ results = NoResult
        /\ output = NoResult
        /\ summary = NoSummary
        /\ ~ENABLED Next

\* the tasks of two records were created under K = 0
C26_Witness ==
    /\ concurrency = 0
    /\ sem = 0
    /\ mainpc = "gathering"
    /\ Len(input) = 2
    /\ \A i \in DOMAIN pc : pc[i] = "created"

----------------------------------------------------------------------------
(* Runs with a client whose response depends only on the transcript *)

\* what such a client answers a transcript with
DetOutcomes ==
    { [ok |-> TRUE, text |-> TextX1],
      [ok |-> TRUE, text |-> <<"o", "o", "p", "s">>],
      [ok |-> FALSE, text |-> Timeout] }

\* one fixed outcome per transcript
DetClients ==
    { [t \in TranscriptTexts |-> IF t = Hello THEN {h} ELSE {w}] : h \in DetOutcomes, w \in DetOutcomes }

InitDet == \E list \in CallLists, k \in 1..MaxK, cl \in DetClients : InitBatch(list, k, cl)

SpecDet == InitDet /\ [][Next]_vars

\* the annotation of a record as a function of the record and the client alone
RecordAnnotation(c) ==
    LET transcript == DictGet(c, KeyTranscript)
    IN  IF SkipTest(transcript) THEN JNull
        ELSE LET outcome == CHOOSE o \in client[transcript.s] : TRUE
             IN  IF outcome.ok THEN StoredFor(CleanUp(outcome.text))
                 ELSE JObj(<<KeyError>>, <<JStr(outcome.text)>>)

\* the enriched list as a function of the input and the client alone
EnrichedInput == [i \in DOMAIN input |-> DictSet(input[i], KeyLlmAnalysis, RecordAnnotation(input[i]))]

\* a record whose task raises outside its handler
InputRaises == \E i \in DOMAIN input : SkipTestRaises(DictGet(input[i], KeyTranscript))

(* C27: the result of a batch does not depend on scheduling: for a client     *)
(* whose response depends only on the transcript, the enriched list and the   *)
(* summary of a run are functions of the input and the client alone, the same *)
(* for every interleaving and every limit K >= 1, and whether the run yields  *)
(* a result at all depends on the input alone.                                *)
C27_ResultIndependentOfScheduling ==
    ~LibraryMissing =>
        /\ results # NoResult => results = JArr(EnrichedInput)
        /\ output # NoResult => output = JArr(EnrichedInput)
        /\ summary # NoSummary => summary = Summarize(EnrichedInput)
        /\ InputRaises => mainpc \notin {"returned", "written", "done"}
        /\ ~InputRaises => mainpc # "crashed"

\* a run under K = 2 in which the second call ended first, both records
\* annotated differently
C27_Witness ==
    /\ mainpc = "done"
    /\ concurrency = 2
    /\ doneOrder = <<2, 1>>
    /\ \A i \in DOMAIN callResult : callResult[i] # <<>>
    /\ LlmAnalysis(output.items[1]) # LlmAnalysis(output.items[2])

\* the same input and client under K = 1, the calls one after the other
C27_WitnessSerial ==
    /\ mainpc = "done"
    /\ concurrency = 1
    /\ doneOrder = <<1, 2>>
    /\ \A i \in DOMAIN callResult : callResult[i] # <<>>
    /\ LlmAnalysis(output.items[1]) # LlmAnalysis(output.items[2])

(* C28: an exception raised in a task outside its handler is not turned into  *)
(* an Error outcome: the record of that task is left as loaded, the exception *)
(* leaves analyze_all_calls, and main writes no output and reports no         *)
(* summary, whatever the sibling tasks have annotated meanwhile.              *)
C28_EscapedExceptionEndsRun ==
    /\ \A i \in DOMAIN pc :
           pc[i] = "raised" =>
               /\ written[i] = <<>>
               /\ calls[i] = input[i]
               /\ mainpc \in {"gathering", "crashed"}
    /\ (mainpc = "crashed" \/ \E i \in DOMAIN pc : pc[i] = "raised") =>
           /\ results = NoResult
           /\ output = NoResult
           /\ summary = NoSummary
    /\ mainpc = "crashed" =>
           /\ \E i \in DOMAIN pc : pc[i] = "raised"
           /\ ~ENABLED (LoadPrompt \/ StartAnalysis \/ GatherReturn \/ WriteOutput \/ CountResults)

\* the run ended by the exception of one task after its sibling had annotated
\* its record
C28_Witness ==
    /\ mainpc = "crashed"
    /\ \E i, j \in DOMAIN pc :
           /\ pc[i] = "raised"
           /\ pc[j] = "done"
           /\ written[j] # <<>>
           /\ calls[j] # input[j]
           /\ callResult[j] # <<>>

\* annotation values of every kind: null, documents that are no objects, truthy
\* and falsy, objects with and without an error key
AnnotationValues ==
    { JNull, JTrue, JFalse, JNum(<<"0">>), JNum(<<"1">>), JStr(<<>>), JStr(<<"s">>),
      JArr(<<>>), JArr(<<JNull>>), JObj(<<>>, <<>>), DocX1, DocErrorE,
      JObj(<<KeyError, KeyRaw>>, <<JStr(MsgInvalidJson), JStr(<<>>)>>),
      JObj(<<KeyX, KeyError>>, <<JNull, JNull>>) }

\* in how many of the three counts of main the record c is counted
TimesCounted(c) ==
    (IF CountsAsSuccess(c) THEN 1 ELSE 0) + (IF CountsAsSkipped(c) THEN 1 ELSE 0)
        + (IF CountsAsError(c) THEN 1 ELSE 0)

(* C29: the three summary predicates of main are mutually exclusive: a record *)
(* is counted in at most one of success, skipped and errors, whatever its     *)
(* annotation, so the three counts never add up to more than the records.     *)
C29_CountsMutuallyExclusive ==
    summary # NoSummary =>
        /\ \A a \in AnnotationValues : TimesCounted(JObj(<<KeyLlmAnalysis>>, <<a>>)) <= 1
        /\ TimesCounted(JObj(<<KeyId>>, <<JNull>>)) <= 1
        /\ \A i \in DOMAIN output.items : TimesCounted(output.items[i]) <= 1
        /\ summary.success + summary.skipped + summary.errors <= summary.total
        /\ summary.total = Len(input)

\* the summary of two records was computed, one a success and one an error
C29_Witness ==
    /\ mainpc = "done"
    /\ summary.total = 2
    /\ summary.success = 1
    /\ summary.errors = 1
    /\ summary.skipped = 0

(* C30: after a completed batch every record of the output has its annotation *)
(* set by this run: a value already present on an input record is overwritten *)
(* on every path, the skip path included, and is not what the output shows.   *)
C30_StaleAnnotationOverwritten ==
    (BatchCompleted /\ output # NoResult) =>
        \A i \in DOMAIN input :
            /\ written[i] # <<>>
            /\ HasKey(output.items[i], KeyLlmAnalysis)
            /\ LlmAnalysis(output.items[i]) = LastWritten(i)
            /\ IsBlankTranscript(input[i]) => LlmAnalysis(output.items[i]) = JNull
            /\ CallRaised(i) => LlmAnalysis(output.items[i]) = JObj(<<KeyError>>, <<JStr(Timeout)>>)

\* two records that came with an annotation: one skipped, one whose call failed,
\* and neither old value is in the output
C30_Witness ==
    /\ BatchCompleted
    /\ output # NoResult
    /\ Len(input) = 2
    /\ \A i \in DOMAIN input :
           /\ LlmAnalysis(input[i]) = DocX1
           /\ LlmAnalysis(output.items[i]) # DocX1
    /\ \E i, j \in DOMAIN input : IsBlankTranscript(input[i]) /\ CallRaised(j)

====
